---- MODULE Spec2Model ----
(***************************************************************************)
(* ledctl (lights-out): the device protocol drivers (MSI CORELIQUID cooler, *)
(* LianLi UNI FAN hub, ASUS GPU over SMBus), the `off` orchestration and    *)
(* the temperature daemon with its Ctrl-C handler, as one state machine.    *)
(* Every transport or file call is a step whose outcome (success, failure)  *)
(* is chosen by the environment.                                            *)
(***************************************************************************)
EXTENDS Integers, Sequences, FiniteSets, TLC

\* ------------------------------------------------------------- bounds
\* Sample cycles the daemon may start before the model stops starting more.
MaxCycles == 2
\* Interrupts (Ctrl-C) delivered to the process during one run.
MaxInterrupts == 2
\* Entries of the hwmon tree that discovery is checked over
MaxEntries == 2

\* ------------------------------------------------ protocol constants
MSI_FEATURE_REPORT_ID == 82    \* 0x52
MSI_MAX_DATA_LEN == 185
MSI_HID_REPORT_LEN == 65
MSI_CMD_PREFIX == 208          \* 0xD0
MSI_CMD_LCD_DISABLE == 127     \* 0x7F
MSI_LED_MODE_DISABLE == 0
MSI_CMD_FAN_MODE_1 == 64       \* 0x40
MSI_CMD_FAN_MODE_2 == 65       \* 0x41
MSI_CMD_CPU_STATUS == 133      \* 0x85
MSI_FAN_MODE_OFFSETS == <<2, 10, 18, 26, 34>>
MSI_DAEMON_INTERVAL_SECS == 2
MSI_LED_OFFSETS ==
  <<1, 11, 21, 31, 42, 53, 74, 84, 94, 104, 114, 124, 134, 144, 154, 164, 174>>

\* enum FanMode
FanMode == {"Silent", "Balance", "Game", "Default", "Smart"}
\* Mutant: the enum's gap is filled in, Default = 3 and Smart = 4.
FanModeValue_contiguous(mode) ==
  CASE mode = "Silent" -> 0
    [] mode = "Balance" -> 1
    [] mode = "Game" -> 2
    [] mode = "Default" -> 3
    [] mode = "Smart" -> 4
\* `mode as u8`
FanModeValue(mode) ==
  CASE mode = "Silent" -> 0
    [] mode = "Balance" -> 1
    [] mode = "Game" -> 2
    [] mode = "Default" -> 4
    [] mode = "Smart" -> 5

LIANLI_TRANSACTION_ID == 224   \* 0xe0
LIANLI_PACKET_SIZE == 65
LIANLI_COLOR_PACKET_SIZE == 146
LIANLI_MODE_STATIC == 1
LIANLI_SPEED_VERY_SLOW == 2
LIANLI_DIRECTION_LEFT_TO_RIGHT == 0
LIANLI_BRIGHTNESS_OFF == 8
LIANLI_NUM_CHANNELS == 4

ENE_REG_MODE == 32801          \* 0x8021
ENE_REG_APPLY == 32928         \* 0x80A0
ENE_MODE_OFF == 0
ENE_APPLY_VAL == 1
SMBUS_CMD_ADDR == 0
SMBUS_CMD_DATA == 1

\* ------------------------------------------------------------ helpers
\* [0u8; n]
Zeros(n) == [i \in 0..(n - 1) |-> 0]
BufLen(b) == Cardinality(DOMAIN b)
\* `as u8`
U8(x) == x % 256

\* gpu::swap_bytes on u16: ((val & 0xFF) << 8) | ((val >> 8) & 0xFF)
swap_bytes(val) == (((val % 256) * 256) % 65536) + ((val \div 256) % 256)

\* i32 limits of `let millidegrees: i32` and `temp: i32`
I32_MAX == 2147483647
I32_MIN == -I32_MAX - 1

\* ------------------------------------------------- text (str) helpers
\* A str is a sequence of one-character strings.
Whitespace == {" ", "\n", "\t", "\r"}
Digits == <<"0", "1", "2", "3", "4", "5", "6", "7", "8", "9">>
IsDigit(c) == \E i \in 1..10 : Digits[i] = c
DigitVal(c) == (CHOOSE i \in 1..10 : Digits[i] = c) - 1

RECURSIVE TrimStart(_)
TrimStart(s) ==
  IF s # <<>> /\ Head(s) \in Whitespace THEN TrimStart(Tail(s)) ELSE s
RECURSIVE TrimEnd(_)
TrimEnd(s) ==
  IF s # <<>> /\ s[Len(s)] \in Whitespace
  THEN TrimEnd(SubSeq(s, 1, Len(s) - 1)) ELSE s
\* str::trim
Trim(s) == TrimEnd(TrimStart(s))

\* str::contains
Contains(s, sub) ==
  \E i \in 1..(Len(s) - Len(sub) + 1) : SubSeq(s, i, i + Len(sub) - 1) = sub

\* <i32 as FromStr>::from_str, digit by digit with checked arithmetic:
\* a positive number accumulates upwards, a negative one downwards.
RECURSIVE ParseDigits(_, _, _)
ParseDigits(s, acc, neg) ==
  IF s = <<>> THEN [ok |-> TRUE, val |-> acc]
  ELSE IF ~IsDigit(Head(s)) THEN [ok |-> FALSE, val |-> 0]
  ELSE LET d == DigitVal(Head(s)) IN
       IF neg
       THEN IF acc < ((I32_MIN + d) + 9) \div 10
            THEN [ok |-> FALSE, val |-> 0]
            ELSE ParseDigits(Tail(s), acc * 10 - d, neg)
       ELSE IF acc > (I32_MAX - d) \div 10
            THEN [ok |-> FALSE, val |-> 0]
            ELSE ParseDigits(Tail(s), acc * 10 + d, neg)
ParseI32(s) ==
  IF s = <<>> THEN [ok |-> FALSE, val |-> 0]
  ELSE IF Head(s) \in {"+", "-"}
       THEN IF Tail(s) = <<>> THEN [ok |-> FALSE, val |-> 0]
            ELSE ParseDigits(Tail(s), 0, Head(s) = "-")
       ELSE ParseDigits(s, 0, FALSE)

\* Mutant: the quotient rounded down (floor division).
TruncDiv_floor(a, b) == a \div b

\* i32 `/`: the quotient truncated toward zero
TruncDiv(a, b) ==
  IF a >= 0 \/ a % b = 0 THEN a \div b ELSE (a \div b) + 1

\* -------------------------------------------------------- CPU sensor
\* A sensor file as one read sees it: unreadable, or its content.
\* read_cpu_temp: read_to_string, trim, parse as i32, divide by 1000.
read_cpu_temp(file) ==
  IF ~file.readable THEN [ok |-> FALSE, val |-> 0, err |-> "Failed to read temperature"]
  ELSE LET millidegrees == ParseI32(Trim(file.content)) IN
       IF ~millidegrees.ok
       THEN [ok |-> FALSE, val |-> 0, err |-> "Failed to parse temperature"]
       ELSE [ok |-> TRUE, val |-> TruncDiv(millidegrees.val, 1000), err |-> ""]

\* Mutant: the high byte is taken with a division, `(temp / 256) & 0xFF`,
\* which truncates toward zero where the shift rounds down.
CpuTempReport_divided(temp) ==
  [Zeros(MSI_HID_REPORT_LEN) EXCEPT
     ![0] = MSI_CMD_PREFIX,
     ![1] = MSI_CMD_CPU_STATUS,
     ![2] = U8(3000 % 256),
     ![3] = U8((3000 \div 256) % 256),
     ![4] = U8(temp % 256),
     ![5] = U8(TruncDiv(temp, 256) % 256)]

\* send_cpu_temp: the report built for one temperature. On i32, `x & 0xFF`
\* is x mod 256 and `x >> 8` is the arithmetic shift, floor(x / 256).
CpuTempReport(temp) ==
  LET freq == 3000 IN
  [Zeros(MSI_HID_REPORT_LEN) EXCEPT
     ![0] = MSI_CMD_PREFIX,
     ![1] = MSI_CMD_CPU_STATUS,
     ![2] = U8(freq % 256),
     ![3] = U8((freq \div 256) % 256),
     ![4] = U8(temp % 256),
     ![5] = U8((temp \div 256) % 256)]

\* ------------------------------------------------------ environment
\* What the cooler may answer to get_feature_report: 185 bytes, the
\* report id first.
DeviceReports ==
  { [i \in 0..(MSI_MAX_DATA_LEN - 1) |->
       IF i = 0 THEN MSI_FEATURE_REPORT_ID ELSE (i * k) % 256] : k \in {1, 3} }

\* What one read of the temp1_input file may give.
Str45999 == <<"4", "5", "9", "9", "9", "\n">>
StrMinus1500 == <<"-", "1", "5", "0", "0", "\n">>
StrGarbage == <<"n", "a", "n">>
SensorFiles ==
  { [readable |-> FALSE, content |-> <<>>],
    [readable |-> TRUE, content |-> Str45999],
    [readable |-> TRUE, content |-> StrMinus1500],
    [readable |-> TRUE, content |-> StrGarbage] }

\* ------------------------------------------------------------ state
VARIABLES
  command,          \* cli.command: [name, mode, smart]
  hwmon,            \* the /sys/class/hwmon tree when a run holds it fixed (SpecFind);
                    \* Spec draws the tree when discovery runs
  pc,               \* where the main thread is
  result,           \* what main returned: "" while running, "Ok" or the error
  ret,              \* what the last call returned to its call site
  returns,          \* every return of a driver function, in order
  mode,             \* msi_set_fan_mode: its parameter
  buf,              \* msi_*: the local buf / cmd being built
  channel,          \* lianli_disable: the for loop's channel
  color_packet,     \* lianli_disable: local
  commit,           \* lianli_disable: local
  write_ok,         \* lianli_disable: whether its last device.write succeeded
  bus_path,         \* gpu_disable: local
  temp_path,        \* msi_daemon: local
  content,          \* read_cpu_temp: the string just read, while it is matched on
  sensor,           \* the temp1_input file when a run holds it fixed (SpecTemp);
                    \* Spec draws the file afresh at every read
  temp,             \* msi_daemon: the result matched on in this cycle
  sleep_i,          \* msi_daemon: iterations of the sleep loop done
  cycles,           \* sample cycles started (bounded by MaxCycles)
  msiWire,          \* every transfer attempted on the cooler, in order
  hubWire,          \* every packet written to the hub, in order
  gpuWire,          \* every SMBus write attempted, in order
  handles,          \* open transport handles per device
  warnings,         \* lines written to stderr (eprintln!)
  stop_flag,        \* the AtomicBool shared with the Ctrl-C handler
  handlerInstalled, \* ctrlc::set_handler succeeded
  signalMsgs        \* lines the Ctrl-C handler printed

\* What the process is started with and never changes
cliVars == <<command, hwmon>>
ctlVars == <<pc, result, ret, returns>>
msiVars == <<mode, buf, msiWire>>
hubVars == <<channel, color_packet, commit, write_ok, hubWire>>
gpuVars == <<bus_path, gpuWire>>
daemonVars == <<temp_path, content, sensor, temp, sleep_i, cycles>>
sigVars == <<stop_flag, handlerInstalled, signalMsgs>>
vars == <<command, hwmon, pc, result, ret, returns, mode, buf, channel, color_packet,
          commit, write_ok, bus_path, temp_path, content, sensor, temp, sleep_i, cycles, msiWire, hubWire,
          gpuWire, handles, warnings, stop_flag, handlerInstalled, signalMsgs>>

\* enum Commands
Commands ==
  { [name |-> n, mode |-> "Silent", smart |-> FALSE] :
      n \in {"off", "msi", "lianli", "gpu", "dump"} }
  \cup { [name |-> "fan", mode |-> m, smart |-> FALSE] : m \in FanMode }
  \cup { [name |-> "daemon", mode |-> "Silent", smart |-> s] : s \in BOOLEAN }

NoTemp == [ok |-> FALSE, val |-> 0, err |-> ""]
NoFile == [readable |-> FALSE, content |-> <<>>]
NoTree == [readable |-> FALSE, entries |-> <<>>]

Init ==
  /\ command \in Commands
  /\ hwmon = NoTree
  /\ pc = "main"
  /\ result = ""
  /\ ret = ""
  /\ returns = <<>>
  /\ mode = "Silent"
  /\ buf = <<>>
  /\ channel = 0
  /\ color_packet = <<>>
  /\ commit = <<>>
  /\ write_ok = TRUE
  /\ bus_path = <<>>
  /\ temp_path = <<>>
  /\ content = <<>>
  /\ sensor = NoFile
  /\ temp = NoTemp
  /\ sleep_i = 0
  /\ cycles = 0
  /\ msiWire = <<>>
  /\ hubWire = <<>>
  /\ gpuWire = <<>>
  /\ handles = [msi |-> 0, lianli |-> 0, gpu |-> 0]
  /\ warnings = 0
  /\ stop_flag = FALSE
  /\ handlerInstalled = FALSE
  /\ signalMsgs = 0

\* ------------------------------------------------- calls and returns
\* Where a driver function returns to: the next statement of `off`, the
\* daemon's `?` after its Smart step, or main's match arm (whose value
\* is main's).
ReturnSite(fn) ==
  IF command.name = "off"
  THEN CASE fn = "msi_disable" -> "off_lianli"
         [] fn = "lianli_disable" -> "off_gpu"
         [] fn = "gpu_disable" -> "off_fan"
         [] fn = "msi_set_fan_mode" -> "off_done"
  ELSE IF command.name = "daemon" /\ fn = "msi_set_fan_mode"
       THEN "daemon_smart_ret"
       ELSE "main_ret"

\* A driver function returns r ("Ok" or the error's context).
Return(fn, r) ==
  /\ returns' = Append(returns, [fn |-> fn, ret |-> r])
  /\ ret' = r
  /\ pc' = ReturnSite(fn)
  /\ UNCHANGED result

Goto(p) == pc' = p /\ UNCHANGED <<result, ret, returns>>

\* A handle is opened / dropped (HidDevice and LinuxI2CDevice close on drop).
Opened(dev) == [handles EXCEPT ![dev] = @ + 1]
Dropped(dev) == [handles EXCEPT ![dev] = @ - 1]

\* main: `match cli.command`
main ==
  /\ pc = "main"
  /\ Goto(CASE command.name = "off" -> "off_msi"
            [] command.name = "msi" -> "msi_disable_api"
            [] command.name = "lianli" -> "lianli_disable_api"
            [] command.name = "gpu" -> "gpu_disable_find"
            [] command.name = "fan" -> "msi_set_fan_mode_api"
            [] command.name = "daemon" -> "main_set_handler"
            [] command.name = "dump" -> "msi_dump_api")
  /\ mode' = command.mode
  /\ UNCHANGED <<cliVars, buf, msiWire, hubVars, gpuVars, daemonVars, handles,
                 warnings, sigVars>>

\* main: a single-device arm's value is main's result
main_ret ==
  /\ pc = "main_ret"
  /\ pc' = "exit"
  /\ result' = ret
  /\ UNCHANGED <<ret, returns, cliVars, msiVars, hubVars, gpuVars, daemonVars,
                 handles, warnings, sigVars>>

\* ------------------------------------------------------------- `off`
\* Each `if let Err(e) = f() { println!(..) }` is the call, then the next
\* statement whatever f returned.
off_msi ==
  /\ pc = "off_msi"
  /\ Goto("msi_disable_api")
  /\ UNCHANGED <<cliVars, msiVars, hubVars, gpuVars, daemonVars, handles,
                 warnings, sigVars>>

\* Mutant: the cooler's error is propagated (`msi_disable()?`) instead of printed.
off_lianli_propagates ==
  /\ pc = "off_lianli"
  /\ IF ret = "Ok"
     THEN Goto("lianli_disable_api")
     ELSE /\ pc' = "exit"
          /\ result' = ret
          /\ UNCHANGED <<ret, returns>>
  /\ UNCHANGED <<cliVars, msiVars, hubVars, gpuVars, daemonVars, handles,
                 warnings, sigVars>>

off_lianli ==
  /\ pc = "off_lianli"
  /\ Goto("lianli_disable_api")
  /\ UNCHANGED <<cliVars, msiVars, hubVars, gpuVars, daemonVars, handles,
                 warnings, sigVars>>

off_gpu ==
  /\ pc = "off_gpu"
  /\ Goto("gpu_disable_find")
  /\ UNCHANGED <<cliVars, msiVars, hubVars, gpuVars, daemonVars, handles,
                 warnings, sigVars>>

off_fan ==
  /\ pc = "off_fan"
  /\ Goto("msi_set_fan_mode_api")
  /\ mode' = "Silent"
  /\ UNCHANGED <<cliVars, buf, msiWire, hubVars, gpuVars, daemonVars, handles,
                 warnings, sigVars>>

off_done ==
  /\ pc = "off_done"
  /\ pc' = "exit"
  /\ result' = "Ok"
  /\ UNCHANGED <<ret, returns, cliVars, msiVars, hubVars, gpuVars, daemonVars,
                 handles, warnings, sigVars>>

\* ------------------------------------------------- MSI cooler driver
\* One transfer on the cooler, as attempted, with its outcome.
MsiIo(kind, data, ok) == Append(msiWire, [kind |-> kind, data |-> data, ok |-> ok])

\* The loop that clears every byte after the report id
DisableLeds_clears(b) ==
  [i \in DOMAIN b |-> IF i = 0 THEN b[i] ELSE MSI_LED_MODE_DISABLE]

\* msi_disable: `for &offset in LED_OFFSETS { if offset < MAX_DATA_LEN {..} }`
DisableLeds(b) ==
  [i \in DOMAIN b |->
     IF (\E k \in 1..Len(MSI_LED_OFFSETS) : MSI_LED_OFFSETS[k] = i)
        /\ i < MSI_MAX_DATA_LEN
     THEN MSI_LED_MODE_DISABLE ELSE b[i]]

\* msi_disable: HidApi::new()
msi_disable_api ==
  /\ pc = "msi_disable_api"
  /\ \E ok \in BOOLEAN :
       IF ok THEN Goto("msi_disable_open")
       ELSE Return("msi_disable", "Failed to initialize HID API")
  /\ UNCHANGED <<cliVars, msiVars, hubVars, gpuVars, daemonVars, handles,
                 warnings, sigVars>>

\* msi_disable: api.open(VID, PID), then the zeroed buf with the report id
msi_disable_open ==
  /\ pc = "msi_disable_open"
  /\ \E ok \in BOOLEAN :
       IF ok
       THEN /\ Goto("msi_disable_get")
            /\ handles' = Opened("msi")
            /\ buf' = [Zeros(MSI_MAX_DATA_LEN) EXCEPT ![0] = MSI_FEATURE_REPORT_ID]
       ELSE /\ Return("msi_disable", "Failed to open MSI CORELIQUID")
            /\ UNCHANGED <<handles, buf>>
  /\ UNCHANGED <<cliVars, mode, msiWire, hubVars, gpuVars, daemonVars,
                 warnings, sigVars>>

\* msi_disable: device.get_feature_report(&mut buf)
msi_disable_get ==
  /\ pc = "msi_disable_get"
  /\ \E ok \in BOOLEAN, report \in DeviceReports :
       /\ msiWire' = MsiIo("get_feature", buf, ok)
       /\ IF ok
          THEN /\ Goto("msi_disable_send")
               /\ buf' = report
               /\ UNCHANGED handles
          ELSE /\ Return("msi_disable", "Failed to get feature report")
               /\ buf' = <<>>
               /\ handles' = Dropped("msi")
  /\ UNCHANGED <<cliVars, mode, hubVars, gpuVars, daemonVars, warnings, sigVars>>

\* The feature-report write whose failure is ignored (no `?`)
msi_disable_send_continues ==
  /\ pc = "msi_disable_send"
  /\ \E ok \in BOOLEAN :
       /\ msiWire' = MsiIo("send_feature", DisableLeds(buf), ok)
       /\ Goto("msi_disable_lcd")
       /\ buf' = DisableLeds(buf)
       /\ UNCHANGED handles
  /\ UNCHANGED <<cliVars, mode, hubVars, gpuVars, daemonVars, warnings, sigVars>>

\* msi_disable: zero the LED offsets, device.send_feature_report(&buf)
msi_disable_send ==
  /\ pc = "msi_disable_send"
  /\ \E ok \in BOOLEAN :
       /\ msiWire' = MsiIo("send_feature", DisableLeds(buf), ok)
       /\ IF ok
          THEN /\ Goto("msi_disable_lcd")
               /\ buf' = DisableLeds(buf)
               /\ UNCHANGED handles
          ELSE /\ Return("msi_disable", "Failed to send feature report")
               /\ buf' = <<>>
               /\ handles' = Dropped("msi")
  /\ UNCHANGED <<cliVars, mode, hubVars, gpuVars, daemonVars, warnings, sigVars>>

\* msi_disable: the {CMD_PREFIX, CMD_LCD_DISABLE} report, device.write(&cmd)
LcdDisableReport ==
  [Zeros(MSI_HID_REPORT_LEN) EXCEPT ![0] = MSI_CMD_PREFIX, ![1] = MSI_CMD_LCD_DISABLE]

msi_disable_lcd ==
  /\ pc = "msi_disable_lcd"
  /\ \E ok \in BOOLEAN :
       /\ msiWire' = MsiIo("write", LcdDisableReport, ok)
       /\ Return("msi_disable", IF ok THEN "Ok" ELSE "Failed to disable LCD")
  /\ buf' = <<>>
  /\ handles' = Dropped("msi")
  /\ UNCHANGED <<cliVars, mode, hubVars, gpuVars, daemonVars, warnings, sigVars>>

\* msi_set_fan_mode: the buffer built before the first write
FanModeReport(m) ==
  [i \in 0..(MSI_HID_REPORT_LEN - 1) |->
     IF \E k \in 1..Len(MSI_FAN_MODE_OFFSETS) : MSI_FAN_MODE_OFFSETS[k] = i
     THEN FanModeValue(m)
     ELSE IF i = 0 THEN MSI_CMD_PREFIX
     ELSE IF i = 1 THEN MSI_CMD_FAN_MODE_1
     ELSE 0]

\* msi_set_fan_mode: HidApi::new()
msi_set_fan_mode_api ==
  /\ pc = "msi_set_fan_mode_api"
  /\ \E ok \in BOOLEAN :
       IF ok THEN Goto("msi_set_fan_mode_open")
       ELSE Return("msi_set_fan_mode", "Failed to initialize HID API")
  /\ UNCHANGED <<cliVars, msiVars, hubVars, gpuVars, daemonVars, handles,
                 warnings, sigVars>>

\* msi_set_fan_mode: api.open(VID, PID), then build buf
msi_set_fan_mode_open ==
  /\ pc = "msi_set_fan_mode_open"
  /\ \E ok \in BOOLEAN :
       IF ok
       THEN /\ Goto("msi_set_fan_mode_write1")
            /\ handles' = Opened("msi")
            /\ buf' = FanModeReport(mode)
       ELSE /\ Return("msi_set_fan_mode", "Failed to open MSI CORELIQUID")
            /\ UNCHANGED <<handles, buf>>
  /\ UNCHANGED <<cliVars, mode, msiWire, hubVars, gpuVars, daemonVars,
                 warnings, sigVars>>

\* msi_set_fan_mode: device.write(&buf) for command 0x40, with `?`
msi_set_fan_mode_write1 ==
  /\ pc = "msi_set_fan_mode_write1"
  /\ \E ok \in BOOLEAN :
       /\ msiWire' = MsiIo("write", buf, ok)
       /\ IF ok
          THEN /\ Goto("msi_set_fan_mode_write2")
               /\ UNCHANGED <<buf, handles>>
          ELSE /\ Return("msi_set_fan_mode", "Failed to write fan mode command 0x40")
               /\ buf' = <<>>
               /\ handles' = Dropped("msi")
  /\ UNCHANGED <<cliVars, mode, hubVars, gpuVars, daemonVars, warnings, sigVars>>

\* Mutant: the second write goes out without `buf[1] = CMD_FAN_MODE_2`.
msi_set_fan_mode_write2_stale ==
  /\ pc = "msi_set_fan_mode_write2"
  /\ \E ok \in BOOLEAN :
       /\ msiWire' = MsiIo("write", buf, ok)
       /\ Return("msi_set_fan_mode",
                 IF ok THEN "Ok" ELSE "Failed to write fan mode command 0x41")
  /\ buf' = <<>>
  /\ handles' = Dropped("msi")
  /\ UNCHANGED <<cliVars, mode, hubVars, gpuVars, daemonVars, warnings, sigVars>>

\* msi_set_fan_mode: buf[1] = CMD_FAN_MODE_2, device.write(&buf), with `?`
msi_set_fan_mode_write2 ==
  /\ pc = "msi_set_fan_mode_write2"
  /\ \E ok \in BOOLEAN :
       /\ msiWire' = MsiIo("write", [buf EXCEPT ![1] = MSI_CMD_FAN_MODE_2], ok)
       /\ Return("msi_set_fan_mode",
                 IF ok THEN "Ok" ELSE "Failed to write fan mode command 0x41")
  /\ buf' = <<>>
  /\ handles' = Dropped("msi")
  /\ UNCHANGED <<cliVars, mode, hubVars, gpuVars, daemonVars, warnings, sigVars>>

\* msi_dump: HidApi::new()
msi_dump_api ==
  /\ pc = "msi_dump_api"
  /\ \E ok \in BOOLEAN :
       IF ok THEN Goto("msi_dump_open")
       ELSE Return("msi_dump", "Failed to initialize HID API")
  /\ UNCHANGED <<cliVars, msiVars, hubVars, gpuVars, daemonVars, handles,
                 warnings, sigVars>>

\* msi_dump: api.open(VID, PID)
msi_dump_open ==
  /\ pc = "msi_dump_open"
  /\ \E ok \in BOOLEAN :
       IF ok
       THEN /\ Goto("msi_dump_get")
            /\ handles' = Opened("msi")
            /\ buf' = [Zeros(MSI_MAX_DATA_LEN) EXCEPT ![0] = MSI_FEATURE_REPORT_ID]
       ELSE /\ Return("msi_dump", "Failed to open MSI CORELIQUID")
            /\ UNCHANGED <<handles, buf>>
  /\ UNCHANGED <<cliVars, mode, msiWire, hubVars, gpuVars, daemonVars,
                 warnings, sigVars>>

\* msi_dump: device.get_feature_report(&mut buf)?, then only printing
msi_dump_get ==
  /\ pc = "msi_dump_get"
  /\ \E ok \in BOOLEAN :
       /\ msiWire' = MsiIo("get_feature", buf, ok)
       /\ Return("msi_dump", IF ok THEN "Ok" ELSE "hid error")
  /\ buf' = <<>>
  /\ handles' = Dropped("msi")
  /\ UNCHANGED <<cliVars, mode, hubVars, gpuVars, daemonVars, warnings, sigVars>>

\* ---------------------------------------------------- LianLi hub driver
\* A packet handed to device.write; whether the write failed shows in the
\* warning (color packets) or in the error returned (commit packets).
HubIo(data) == Append(hubWire, data)

\* color_packet for a register: TRANSACTION_ID, the register, zeros (black)
ColorPacket(reg) ==
  [Zeros(LIANLI_COLOR_PACKET_SIZE) EXCEPT ![0] = LIANLI_TRANSACTION_ID, ![1] = reg]

\* commit for a register: static mode, slowest speed, 0% brightness
CommitPacket(reg) ==
  [Zeros(LIANLI_PACKET_SIZE) EXCEPT
     ![0] = LIANLI_TRANSACTION_ID,
     ![1] = reg,
     ![2] = LIANLI_MODE_STATIC,
     ![3] = LIANLI_SPEED_VERY_SLOW,
     ![4] = LIANLI_DIRECTION_LEFT_TO_RIGHT,
     ![5] = LIANLI_BRIGHTNESS_OFF]

\* the registers, `0x30 + (channel * 2)` and so on, in u8
ColorFanReg(c) == U8(48 + c * 2)
ColorEdgeReg(c) == U8(49 + c * 2)
CommitFanReg(c) == U8(16 + c * 2)
CommitEdgeReg(c) == U8(17 + c * 2)

\* lianli_disable: HidApi::new()
lianli_disable_api ==
  /\ pc = "lianli_disable_api"
  /\ \E ok \in BOOLEAN :
       IF ok THEN Goto("lianli_disable_find")
       ELSE Return("lianli_disable", "Failed to initialize HID API")
  /\ UNCHANGED <<cliVars, msiVars, hubVars, gpuVars, daemonVars, handles,
                 warnings, sigVars>>

\* lianli_disable: api.device_list().find(VID, PID)
lianli_disable_find ==
  /\ pc = "lianli_disable_find"
  /\ \E found \in BOOLEAN :
       IF found THEN Goto("lianli_disable_open")
       ELSE Return("lianli_disable", "LianLi UNI FAN AL V2 not found")
  /\ UNCHANGED <<cliVars, msiVars, hubVars, gpuVars, daemonVars, handles,
                 warnings, sigVars>>

\* lianli_disable: api.open_path(..), then the for loop starts at channel 0
lianli_disable_open ==
  /\ pc = "lianli_disable_open"
  /\ \E ok \in BOOLEAN :
       IF ok
       THEN /\ Goto("lianli_disable_for")
            /\ handles' = Opened("lianli")
            /\ channel' = 0
       ELSE /\ Return("lianli_disable", "Failed to open LianLi UNI FAN AL V2")
            /\ UNCHANGED <<handles, channel>>
  /\ UNCHANGED <<cliVars, msiVars, color_packet, commit, write_ok, hubWire,
                 gpuVars, daemonVars, warnings, sigVars>>

\* lianli_disable: `for channel in 0..NUM_CHANNELS`, and the Ok(()) after it
lianli_disable_for ==
  /\ pc = "lianli_disable_for"
  /\ IF channel < LIANLI_NUM_CHANNELS
     THEN /\ Goto("lianli_disable_color_fan")
          /\ UNCHANGED <<handles, channel>>
     ELSE /\ Return("lianli_disable", "Ok")
          /\ handles' = Dropped("lianli")
          /\ channel' = 0
  /\ UNCHANGED <<cliVars, msiVars, color_packet, commit, write_ok, hubWire,
                 gpuVars, daemonVars, warnings, sigVars>>

\* Mutant: a failed color write is propagated like a failed commit write.
ColorWriteThen_propagates(ok, next) ==
  /\ write_ok' = ok
  /\ IF ok
     THEN /\ Goto(next)
          /\ UNCHANGED <<handles, channel>>
     ELSE /\ Return("lianli_disable", "Failed to write color packet")
          /\ handles' = Dropped("lianli")
          /\ channel' = 0
  /\ UNCHANGED warnings

\* What follows a color write: Ok(_) => {}, Err(e) => eprintln!(..); both
\* fall through to the 20 ms sleep and the next statement.
ColorWriteThen(ok, next) ==
  /\ write_ok' = ok
  /\ Goto(next)
  /\ warnings' = IF ok THEN warnings ELSE warnings + 1
  /\ UNCHANGED <<handles, channel>>

\* lianli_disable: the fan color packet (0x30 + channel*2), sleep 20 ms
lianli_disable_color_fan ==
  /\ pc = "lianli_disable_color_fan"
  /\ \E ok \in BOOLEAN :
       /\ color_packet' = ColorPacket(ColorFanReg(channel))
       /\ hubWire' = HubIo(color_packet')
       /\ ColorWriteThen(ok, "lianli_disable_color_edge")
  /\ UNCHANGED <<cliVars, msiVars, commit, gpuVars, daemonVars, sigVars>>

\* lianli_disable: color_packet[1] = 0x31 + channel*2, write, sleep 20 ms
lianli_disable_color_edge ==
  /\ pc = "lianli_disable_color_edge"
  /\ \E ok \in BOOLEAN :
       /\ color_packet' = [color_packet EXCEPT ![1] = ColorEdgeReg(channel)]
       /\ hubWire' = HubIo(color_packet')
       /\ ColorWriteThen(ok, "lianli_disable_commit_fan")
  /\ UNCHANGED <<cliVars, msiVars, commit, gpuVars, daemonVars, sigVars>>

\* Mutant: a failed commit write is only logged, like a failed color write.
CommitWriteFailed_continues(msg) ==
  /\ write_ok' = FALSE
  /\ Goto(IF pc = "lianli_disable_commit_fan"
          THEN "lianli_disable_commit_edge" ELSE "lianli_disable_for")
  /\ channel' = IF pc = "lianli_disable_commit_fan" THEN channel ELSE channel + 1
  /\ commit' = CommitPacket(CommitFanReg(channel))
  /\ UNCHANGED <<handles, color_packet>>

\* What follows a failed commit write: `.context(..)?` returns the error,
\* dropping the locals and the device.
CommitWriteFailed(msg) ==
  /\ write_ok' = FALSE
  /\ Return("lianli_disable", msg)
  /\ handles' = Dropped("lianli")
  /\ channel' = 0
  /\ color_packet' = <<>>
  /\ commit' = <<>>

\* lianli_disable: the fan commit packet (0x10 + channel*2), sleep 20 ms
lianli_disable_commit_fan ==
  /\ pc = "lianli_disable_commit_fan"
  /\ \E ok \in BOOLEAN :
       /\ hubWire' = HubIo(CommitPacket(CommitFanReg(channel)))
       /\ IF ok
          THEN /\ Goto("lianli_disable_commit_edge")
               /\ write_ok' = TRUE
               /\ commit' = CommitPacket(CommitFanReg(channel))
               /\ UNCHANGED <<handles, channel, color_packet>>
          ELSE CommitWriteFailed("Failed to write fan LED commit")
  /\ UNCHANGED <<cliVars, msiVars, gpuVars, daemonVars, warnings, sigVars>>

\* lianli_disable: commit[1] = 0x11 + channel*2, write, sleep 20 ms; the
\* loop's next channel
lianli_disable_commit_edge ==
  /\ pc = "lianli_disable_commit_edge"
  /\ \E ok \in BOOLEAN :
       /\ hubWire' = HubIo([commit EXCEPT ![1] = CommitEdgeReg(channel)])
       /\ IF ok
          THEN /\ Goto("lianli_disable_for")
               /\ write_ok' = TRUE
               /\ channel' = channel + 1
               /\ color_packet' = <<>>
               /\ commit' = <<>>
               /\ UNCHANGED handles
          ELSE CommitWriteFailed("Failed to write edge LED commit")
  /\ UNCHANGED <<cliVars, msiVars, gpuVars, daemonVars, warnings, sigVars>>

\* ------------------------------------------------------- GPU driver
GpuIo(kind, cmd, val, ok) ==
  Append(gpuWire, [kind |-> kind, cmd |-> cmd, val |-> val, ok |-> ok])

StrAmdgpuOem ==
  <<"A", "M", "D", "G", "P", "U", " ", "D", "M", " ", "i", "2", "c", " ",
    "O", "E", "M", " ", "b", "u", "s", "\n">>
StrAmdgpuAux == <<"A", "M", "D", "G", "P", "U", " ", "D", "M", " ", "a", "u", "x">>
StrAMDGPU == <<"A", "M", "D", "G", "P", "U">>
StrOEM == <<"O", "E", "M">>

\* What /sys/class/i2c-dev may hold: unreadable, or its entries in
\* enumeration order, each with its file name and its `name` file.
I2cTrees ==
  { [readable |-> FALSE, entries |-> <<>>],
    [readable |-> TRUE, entries |->
       << [file |-> "i2c-0", name |-> [readable |-> TRUE, content |-> StrAmdgpuAux]],
          [file |-> "i2c-3", name |-> [readable |-> TRUE, content |-> StrAmdgpuOem]] >>],
    [readable |-> TRUE, entries |->
       << [file |-> "i2c-0", name |-> [readable |-> FALSE, content |-> <<>>]],
          [file |-> "i2c-1", name |-> [readable |-> TRUE, content |-> StrAmdgpuAux]] >>] }

\* find_gpu_i2c_bus: the first entry whose name contains AMDGPU and OEM
RECURSIVE FindGpuBusIn(_)
FindGpuBusIn(entries) ==
  IF entries = <<>>
  THEN [ok |-> FALSE, path |-> <<>>, err |-> "AMDGPU OEM i2c bus not found"]
  ELSE LET e == Head(entries) IN
       IF e.name.readable /\ Contains(e.name.content, StrAMDGPU)
          /\ Contains(e.name.content, StrOEM)
       THEN [ok |-> TRUE, path |-> <<"/dev", e.file>>, err |-> ""]
       ELSE FindGpuBusIn(Tail(entries))
find_gpu_i2c_bus(tree) ==
  IF ~tree.readable
  THEN [ok |-> FALSE, path |-> <<>>, err |-> "Failed to read /sys/class/i2c-dev"]
  ELSE FindGpuBusIn(tree.entries)

\* gpu_disable: find_gpu_i2c_bus()?
gpu_disable_find ==
  /\ pc = "gpu_disable_find"
  /\ \E tree \in I2cTrees :
       LET found == find_gpu_i2c_bus(tree) IN
       IF found.ok
       THEN /\ Goto("gpu_disable_open")
            /\ bus_path' = found.path
       ELSE /\ Return("gpu_disable", found.err)
            /\ UNCHANGED bus_path
  /\ UNCHANGED <<cliVars, msiVars, hubVars, gpuWire, daemonVars, handles,
                 warnings, sigVars>>

\* gpu_disable: LinuxI2CDevice::new(&bus_path, ENE_I2C_ADDR)
gpu_disable_open ==
  /\ pc = "gpu_disable_open"
  /\ \E ok \in BOOLEAN :
       IF ok
       THEN /\ Goto("gpu_disable_mode_addr")
            /\ handles' = Opened("gpu")
            /\ UNCHANGED bus_path
       ELSE /\ Return("gpu_disable", "Failed to open GPU i2c device")
            /\ bus_path' = <<>>
            /\ UNCHANGED handles
  /\ UNCHANGED <<cliVars, msiVars, hubVars, gpuWire, daemonVars, warnings, sigVars>>

\* The write whose failure is logged and then ignored (no `?`)
GpuWrite_continues(kind, cmd, val, next, msg) ==
  \E ok \in BOOLEAN :
    /\ gpuWire' = GpuIo(kind, cmd, val, ok)
    /\ IF next # "Ok"
       THEN /\ Goto(next)
            /\ UNCHANGED <<handles, bus_path>>
       ELSE /\ Return("gpu_disable", "Ok")
            /\ handles' = Dropped("gpu")
            /\ bus_path' = <<>>

\* One SMBus write with `.context(msg)?`: on success the next statement,
\* on failure the error is returned and the device dropped.
GpuWrite(kind, cmd, val, next, msg) ==
  \E ok \in BOOLEAN :
    /\ gpuWire' = GpuIo(kind, cmd, val, ok)
    /\ IF ok /\ next # "Ok"
       THEN /\ Goto(next)
            /\ UNCHANGED <<handles, bus_path>>
       ELSE /\ Return("gpu_disable", IF ok THEN "Ok" ELSE msg)
            /\ handles' = Dropped("gpu")
            /\ bus_path' = <<>>

\* gpu_disable: smbus_write_word_data(CMD_ADDR, swap_bytes(ENE_REG_MODE))
gpu_disable_mode_addr ==
  /\ pc = "gpu_disable_mode_addr"
  /\ GpuWrite("word", SMBUS_CMD_ADDR, swap_bytes(ENE_REG_MODE),
              "gpu_disable_mode_val", "Failed to write mode register address")
  /\ UNCHANGED <<cliVars, msiVars, hubVars, daemonVars, warnings, sigVars>>

\* gpu_disable: smbus_write_byte_data(CMD_DATA, ENE_MODE_OFF)
gpu_disable_mode_val ==
  /\ pc = "gpu_disable_mode_val"
  /\ GpuWrite("byte", SMBUS_CMD_DATA, ENE_MODE_OFF,
              "gpu_disable_apply_addr", "Failed to write mode value")
  /\ UNCHANGED <<cliVars, msiVars, hubVars, daemonVars, warnings, sigVars>>

\* gpu_disable: smbus_write_word_data(CMD_ADDR, swap_bytes(ENE_REG_APPLY))
gpu_disable_apply_addr ==
  /\ pc = "gpu_disable_apply_addr"
  /\ GpuWrite("word", SMBUS_CMD_ADDR, swap_bytes(ENE_REG_APPLY),
              "gpu_disable_apply_val", "Failed to write apply register address")
  /\ UNCHANGED <<cliVars, msiVars, hubVars, daemonVars, warnings, sigVars>>

\* gpu_disable: smbus_write_byte_data(CMD_DATA, ENE_APPLY_VAL), then Ok(())
gpu_disable_apply_val ==
  /\ pc = "gpu_disable_apply_val"
  /\ GpuWrite("byte", SMBUS_CMD_DATA, ENE_APPLY_VAL, "Ok",
              "Failed to write apply value")
  /\ UNCHANGED <<cliVars, msiVars, hubVars, daemonVars, warnings, sigVars>>

\* ------------------------------------------------- sensor discovery
StrK10temp == <<"k", "1", "0", "t", "e", "m", "p">>
StrCoretemp == <<"c", "o", "r", "e", "t", "e", "m", "p">>
StrNvme == <<"n", "v", "m", "e", "\n">>

HwmonEntry(dir, err, name, temp1) ==
  [dir |-> dir, err |-> err, name |-> name, temp1_input |-> temp1]
TextFile(s) == [readable |-> TRUE, content |-> s]

\* What /sys/class/hwmon may hold: unreadable, or its entries in enumeration
\* order: the directory, whether reading the entry fails, its `name` file
\* and whether temp1_input exists.
HwmonTrees ==
  { [readable |-> FALSE, entries |-> <<>>],
    [readable |-> TRUE, entries |->
       << HwmonEntry("hwmon0", FALSE, TextFile(StrNvme), TRUE),
          HwmonEntry("hwmon1", FALSE, TextFile(StrK10temp \o <<"\n">>), TRUE) >>],
    [readable |-> TRUE, entries |->
       << HwmonEntry("hwmon0", FALSE, TextFile(StrCoretemp), FALSE),
          HwmonEntry("hwmon1", FALSE, NoFile, TRUE),
          HwmonEntry("hwmon2", FALSE, TextFile(StrCoretemp \o <<"\n">>), TRUE) >>],
    [readable |-> TRUE, entries |->
       << HwmonEntry("hwmon0", FALSE, TextFile(StrNvme), TRUE) >>],
    [readable |-> TRUE, entries |->
       << HwmonEntry("hwmon0", TRUE, NoFile, FALSE),
          HwmonEntry("hwmon1", FALSE, TextFile(StrK10temp), TRUE) >>] }

\* The loop that returns the first entry with a matching name without
\* testing temp_path.exists()
RECURSIVE FindCpuTempIn_unchecked(_)
FindCpuTempIn_unchecked(entries) ==
  IF entries = <<>>
  THEN [ok |-> FALSE, path |-> <<>>, err |-> "CPU temperature sensor not found"]
  ELSE LET e == Head(entries) IN
       IF e.err THEN [ok |-> FALSE, path |-> <<>>, err |-> "io error"]
       ELSE IF /\ e.name.readable
               /\ Trim(e.name.content) \in {StrK10temp, StrCoretemp}
            THEN [ok |-> TRUE, path |-> <<e.dir, "temp1_input">>, err |-> ""]
            ELSE FindCpuTempIn_unchecked(Tail(entries))

\* find_cpu_temp_path: the loop over the entries
RECURSIVE FindCpuTempIn(_)
FindCpuTempIn(entries) ==
  IF entries = <<>>
  THEN [ok |-> FALSE, path |-> <<>>, err |-> "CPU temperature sensor not found"]
  ELSE LET e == Head(entries) IN
       IF e.err THEN [ok |-> FALSE, path |-> <<>>, err |-> "io error"]
       ELSE IF /\ e.name.readable
               /\ Trim(e.name.content) \in {StrK10temp, StrCoretemp}
               /\ e.temp1_input
            THEN [ok |-> TRUE, path |-> <<e.dir, "temp1_input">>, err |-> ""]
            ELSE FindCpuTempIn(Tail(entries))
find_cpu_temp_path(tree) ==
  IF ~tree.readable
  THEN [ok |-> FALSE, path |-> <<>>, err |-> "Failed to read /sys/class/hwmon"]
  ELSE FindCpuTempIn(tree.entries)

\* ------------------------------------------------------------ daemon
\* main, Commands::Daemon: the flag starts false, ctrlc::set_handler(..)
\* with `.context(..)?`, then msi_daemon(smart, stop_flag)
main_set_handler ==
  /\ pc = "main_set_handler"
  /\ \E ok \in BOOLEAN :
       IF ok
       THEN /\ Goto("msi_daemon_api")
            /\ handlerInstalled' = TRUE
       ELSE /\ pc' = "exit"
            /\ result' = "Failed to set signal handler"
            /\ UNCHANGED <<ret, returns, handlerInstalled>>
  /\ stop_flag' = FALSE
  /\ UNCHANGED <<cliVars, msiVars, hubVars, gpuVars, daemonVars, handles,
                 warnings, signalMsgs>>

\* The Ctrl-C handler: println!("Received shutdown signal..."), then
\* stop_flag_clone.store(true). It runs on each interrupt while the process
\* lives.
Interrupt ==
  /\ handlerInstalled
  /\ pc # "exit"
  /\ signalMsgs < MaxInterrupts
  /\ signalMsgs' = signalMsgs + 1
  /\ stop_flag' = TRUE
  /\ UNCHANGED <<cliVars, ctlVars, msiVars, hubVars, gpuVars, daemonVars,
                 handles, warnings, handlerInstalled>>

\* msi_daemon returning with its device kept alive (mem::forget, a leaked
\* handle): the return without the drop.
DaemonReturn_leaks(r) ==
  /\ Return("msi_daemon", r)
  /\ UNCHANGED handles
  /\ temp_path' = <<>>

\* msi_daemon returns r: its device is dropped with its locals
DaemonReturn(r) ==
  /\ Return("msi_daemon", r)
  /\ handles' = Dropped("msi")
  /\ temp_path' = <<>>

\* msi_daemon: HidApi::new()
msi_daemon_api ==
  /\ pc = "msi_daemon_api"
  /\ \E ok \in BOOLEAN :
       IF ok THEN Goto("msi_daemon_open")
       ELSE Return("msi_daemon", "Failed to initialize HID API")
  /\ UNCHANGED <<cliVars, msiVars, hubVars, gpuVars, daemonVars, handles,
                 warnings, sigVars>>

\* msi_daemon: api.open(VID, PID)
msi_daemon_open ==
  /\ pc = "msi_daemon_open"
  /\ \E ok \in BOOLEAN :
       IF ok
       THEN /\ Goto("msi_daemon_smart")
            /\ handles' = Opened("msi")
       ELSE /\ Return("msi_daemon", "Failed to open MSI CORELIQUID")
            /\ UNCHANGED handles
  /\ UNCHANGED <<cliVars, msiVars, hubVars, gpuVars, daemonVars, warnings, sigVars>>

\* msi_daemon: `if set_smart { msi_set_fan_mode(FanMode::Smart)?; }`, the call
msi_daemon_smart ==
  /\ pc = "msi_daemon_smart"
  /\ IF command.smart
     THEN /\ Goto("msi_set_fan_mode_api")
          /\ mode' = "Smart"
     ELSE /\ Goto("msi_daemon_find")
          /\ UNCHANGED mode
  /\ UNCHANGED <<cliVars, buf, msiWire, hubVars, gpuVars, daemonVars, handles,
                 warnings, sigVars>>

\* msi_daemon: the `?` on what msi_set_fan_mode returned
msi_daemon_smart_ret ==
  /\ pc = "daemon_smart_ret"
  /\ IF ret = "Ok"
     THEN /\ Goto("msi_daemon_find")
          /\ UNCHANGED <<handles, temp_path>>
     ELSE DaemonReturn(ret)
  /\ UNCHANGED <<cliVars, msiVars, hubVars, gpuVars, content, sensor, temp,
                 sleep_i, cycles, warnings, sigVars>>

\* msi_daemon: find_cpu_temp_path()?
DaemonFind(tree) ==
  /\ LET found == find_cpu_temp_path(tree) IN
       IF found.ok
       THEN /\ Goto("msi_daemon_while")
            /\ temp_path' = found.path
            /\ UNCHANGED handles
       ELSE DaemonReturn(found.err)
  /\ UNCHANGED <<cliVars, msiVars, hubVars, gpuVars, content, sensor, temp,
                 sleep_i, cycles, warnings, sigVars>>

msi_daemon_find ==
  /\ pc = "msi_daemon_find"
  /\ \E tree \in HwmonTrees : DaemonFind(tree)

\* The loop written `loop { .. }`: the loop condition never looks at the flag.
msi_daemon_while_forever ==
  /\ pc = "msi_daemon_while"
  /\ cycles < MaxCycles
  /\ Goto("msi_daemon_read")
  /\ cycles' = cycles + 1
  /\ UNCHANGED <<handles, temp_path>>
  /\ UNCHANGED <<cliVars, msiVars, hubVars, gpuVars, content, sensor, temp,
                 sleep_i, warnings, sigVars>>

\* The loop condition written `!stop_flag.swap(false, ..)`: the loop's own
\* check clears the flag it reads.
msi_daemon_while_swaps ==
  /\ pc = "msi_daemon_while"
  /\ IF ~stop_flag
     THEN /\ cycles < MaxCycles
          /\ Goto("msi_daemon_read")
          /\ cycles' = cycles + 1
          /\ UNCHANGED <<handles, temp_path>>
     ELSE /\ DaemonReturn("Ok")
          /\ UNCHANGED cycles
  /\ stop_flag' = FALSE
  /\ UNCHANGED <<cliVars, msiVars, hubVars, gpuVars, content, sensor, temp,
                 sleep_i, warnings, handlerInstalled, signalMsgs>>

\* msi_daemon: `while !stop_flag.load(..)`, and after the loop Ok(())
msi_daemon_while ==
  /\ pc = "msi_daemon_while"
  /\ IF ~stop_flag
     THEN /\ cycles < MaxCycles
          /\ Goto("msi_daemon_read")
          /\ cycles' = cycles + 1
          /\ UNCHANGED <<handles, temp_path>>
     ELSE /\ DaemonReturn("Ok")
          /\ UNCHANGED cycles
  /\ UNCHANGED <<cliVars, msiVars, hubVars, gpuVars, content, sensor, temp,
                 sleep_i, warnings, sigVars>>

\* Mutant: the read is written `read_cpu_temp(&temp_path)?`, so a failed read
\* or parse returns the error out of the loop.
DaemonRead_propagates(file) ==
  /\ temp' = read_cpu_temp(file)
  /\ IF temp'.ok
     THEN /\ Goto("msi_daemon_send")
          /\ content' = file.content
          /\ UNCHANGED <<handles, temp_path>>
     ELSE /\ DaemonReturn(temp'.err)
          /\ content' = <<>>
  /\ UNCHANGED <<cliVars, msiVars, hubVars, gpuVars, sensor, cycles, warnings,
                 sleep_i, sigVars>>

\* msi_daemon: `match read_cpu_temp(&temp_path)` on the file as this read
\* finds it; the Err arm warns and falls through to the sleep loop.
DaemonRead(file) ==
  /\ temp' = read_cpu_temp(file)
  /\ IF temp'.ok
     THEN /\ Goto("msi_daemon_send")
          /\ content' = file.content
          /\ UNCHANGED <<warnings, sleep_i>>
     ELSE /\ Goto("msi_daemon_sleep_check")
          /\ content' = <<>>
          /\ warnings' = warnings + 1
          /\ sleep_i' = 0
  /\ UNCHANGED <<cliVars, msiVars, hubVars, gpuVars, temp_path, sensor, cycles,
                 handles, sigVars>>

msi_daemon_read ==
  /\ pc = "msi_daemon_read"
  /\ \E file \in SensorFiles : DaemonRead(file)

\* Mutant: the push is written `send_cpu_temp(&device, temp)?`, so a failed
\* push returns the error out of the loop.
msi_daemon_send_propagates ==
  /\ pc = "msi_daemon_send"
  /\ \E ok \in BOOLEAN :
       /\ msiWire' = MsiIo("write", CpuTempReport(temp.val), ok)
       /\ IF ok
          THEN /\ Goto("msi_daemon_sleep_check")
               /\ UNCHANGED <<handles, temp_path>>
          ELSE DaemonReturn("Failed to send CPU temperature")
  /\ temp' = NoTemp
  /\ content' = <<>>
  /\ sleep_i' = 0
  /\ UNCHANGED <<cliVars, mode, buf, hubVars, gpuVars, sensor, cycles, warnings,
                 sigVars>>

\* msi_daemon: the Ok arm, `if let Err(e) = send_cpu_temp(&device, temp)`
\* warns; either way the sleep loop follows.
msi_daemon_send ==
  /\ pc = "msi_daemon_send"
  /\ \E ok \in BOOLEAN :
       /\ msiWire' = MsiIo("write", CpuTempReport(temp.val), ok)
       /\ warnings' = IF ok THEN warnings ELSE warnings + 1
  /\ Goto("msi_daemon_sleep_check")
  /\ temp' = NoTemp
  /\ content' = <<>>
  /\ sleep_i' = 0
  /\ UNCHANGED <<cliVars, mode, buf, hubVars, gpuVars, temp_path, sensor, cycles,
                 handles, sigVars>>

\* The sleep loop written `for _ in 0..DAEMON_INTERVAL_SECS`: one iteration
\* per second of the interval instead of ten.
msi_daemon_sleep_check_seconds ==
  /\ pc = "msi_daemon_sleep_check"
  /\ IF sleep_i < MSI_DAEMON_INTERVAL_SECS /\ ~stop_flag
     THEN Goto("msi_daemon_sleeping")
     ELSE Goto("msi_daemon_while")
  /\ UNCHANGED <<cliVars, msiVars, hubVars, gpuVars, daemonVars, handles,
                 warnings, sigVars>>

\* Mutant: the sleep loop runs its 20 iterations without looking at the flag.
msi_daemon_sleep_check_unchecked ==
  /\ pc = "msi_daemon_sleep_check"
  /\ IF sleep_i < MSI_DAEMON_INTERVAL_SECS * 10
     THEN Goto("msi_daemon_sleeping")
     ELSE Goto("msi_daemon_while")
  /\ UNCHANGED <<cliVars, msiVars, hubVars, gpuVars, daemonVars, handles,
                 warnings, sigVars>>

\* msi_daemon: `for _ in 0..(DAEMON_INTERVAL_SECS * 10)` with
\* `if stop_flag.load(..) { break; }`
msi_daemon_sleep_check ==
  /\ pc = "msi_daemon_sleep_check"
  /\ IF sleep_i < MSI_DAEMON_INTERVAL_SECS * 10 /\ ~stop_flag
     THEN Goto("msi_daemon_sleeping")
     ELSE Goto("msi_daemon_while")
  /\ UNCHANGED <<cliVars, msiVars, hubVars, gpuVars, daemonVars, handles,
                 warnings, sigVars>>

\* msi_daemon: std::thread::sleep(100 ms) returns
msi_daemon_sleep ==
  /\ pc = "msi_daemon_sleeping"
  /\ Goto("msi_daemon_sleep_check")
  /\ sleep_i' = sleep_i + 1
  /\ UNCHANGED <<cliVars, msiVars, hubVars, gpuVars, temp_path, content, sensor,
                 temp, cycles, handles, warnings, sigVars>>

\* ----------------------------------------------------- specification
Cooler ==
  \/ msi_disable_api \/ msi_disable_open \/ msi_disable_get
  \/ msi_disable_send \/ msi_disable_lcd
  \/ msi_set_fan_mode_api \/ msi_set_fan_mode_open
  \/ msi_set_fan_mode_write1 \/ msi_set_fan_mode_write2
  \/ msi_dump_api \/ msi_dump_open \/ msi_dump_get
Hub ==
  \/ lianli_disable_api \/ lianli_disable_find \/ lianli_disable_open
  \/ lianli_disable_for \/ lianli_disable_color_fan \/ lianli_disable_color_edge
  \/ lianli_disable_commit_fan \/ lianli_disable_commit_edge
Gpu ==
  \/ gpu_disable_find \/ gpu_disable_open \/ gpu_disable_mode_addr
  \/ gpu_disable_mode_val \/ gpu_disable_apply_addr \/ gpu_disable_apply_val
Daemon ==
  \/ main_set_handler \/ msi_daemon_api \/ msi_daemon_open \/ msi_daemon_smart
  \/ msi_daemon_smart_ret \/ msi_daemon_find \/ msi_daemon_while
  \/ msi_daemon_read \/ msi_daemon_send \/ msi_daemon_sleep_check
  \/ msi_daemon_sleep
Orchestrator ==
  \/ main \/ main_ret \/ off_msi \/ off_lianli \/ off_gpu \/ off_fan \/ off_done

\* every step of the main thread
MainThread == Orchestrator \/ Cooler \/ Hub \/ Gpu \/ Daemon

Next == MainThread \/ Interrupt

Spec == Init /\ [][Next]_vars

\* The main thread keeps running: every call it makes returns, so a step it
\* can take is eventually taken. Nothing is assumed about interrupts.
FairSpec == Spec /\ WF_vars(MainThread)

\* ------------------------------------- the sample path on a fixed file
\* The decimal text of an integer, as the kernel prints temp1_input
RECURSIVE DecimalDigits(_)
DecimalDigits(n) ==
  IF n < 10 THEN <<Digits[n + 1]>>
  ELSE DecimalDigits(n \div 10) \o <<Digits[(n % 10) + 1]>>
DecimalLine(m) ==
  (IF m < 0 THEN <<"-">> \o DecimalDigits(-m) ELSE DecimalDigits(m)) \o <<"\n">>

\* Millidegree readings: every whole degree of -40..125, and readings off
\* the whole degree on both sides of zero and at both ends.
TempRaw ==
  { t * 1000 : t \in -40..125 }
  \cup { 45999, 999, -1, -500, -999, -1500, -39001, -40999, 125999 }
\* The file's text for each reading
TempText == [m \in TempRaw |-> DecimalLine(m)]
TempSensorFiles == { TextFile(TempText[m]) : m \in TempRaw }

\* The daemon as it enters its loop (no --smart, handler installed, cooler
\* open, sensor found), with a sensor file that stays as it is.
TempInit ==
  /\ command = [name |-> "daemon", mode |-> "Silent", smart |-> FALSE]
  /\ hwmon = NoTree
  /\ pc = "msi_daemon_while"
  /\ result = ""
  /\ ret = ""
  /\ returns = <<>>
  /\ mode = "Silent"
  /\ buf = <<>>
  /\ channel = 0
  /\ color_packet = <<>>
  /\ commit = <<>>
  /\ write_ok = TRUE
  /\ bus_path = <<>>
  /\ temp_path = <<"hwmon1", "temp1_input">>
  /\ content = <<>>
  /\ sensor \in TempSensorFiles
  /\ temp = NoTemp
  /\ sleep_i = 0
  /\ cycles = 0
  /\ msiWire = <<>>
  /\ hubWire = <<>>
  /\ gpuWire = <<>>
  /\ handles = [msi |-> 1, lianli |-> 0, gpu |-> 0]
  /\ warnings = 0
  /\ stop_flag = FALSE
  /\ handlerInstalled = TRUE
  /\ signalMsgs = 0

\* msi_daemon: the read, of the file that stays as it is
msi_daemon_read_fixed ==
  /\ pc = "msi_daemon_read"
  /\ DaemonRead(sensor)

TempNext ==
  \/ msi_daemon_while \/ msi_daemon_read_fixed \/ msi_daemon_send
  \/ msi_daemon_sleep_check \/ msi_daemon_sleep

SpecTemp == TempInit /\ [][TempNext]_vars

\* ============================================================ claims
\* The last element of a non-empty sequence
Last(s) == s[Len(s)]
IsPrefix(s, t) == Len(s) <= Len(t) /\ \A i \in 1..Len(s) : s[i] = t[i]
\* Each packet of a wire as <<its length, its register byte>>
Headers(wire) == [i \in 1..Len(wire) |-> <<BufLen(wire[i]), wire[i][1]>>]
\* What the calls of fn returned, in order
ReturnsOf(fn) == SelectSeq(returns, LAMBDA r : r.fn = fn)

\* The 16 packets of the hub's disable sequence, as the documentation gives
\* them: per channel c, color 0x30+2c, color 0x31+2c (146 bytes), commit
\* 0x10+2c, commit 0x11+2c (65 bytes).
HubSequence ==
  << <<146, 48>>, <<146, 49>>, <<65, 16>>, <<65, 17>>,
     <<146, 50>>, <<146, 51>>, <<65, 18>>, <<65, 19>>,
     <<146, 52>>, <<146, 53>>, <<65, 20>>, <<65, 21>>,
     <<146, 54>>, <<146, 55>>, <<65, 22>>, <<65, 23>> >>
HubOpenErrors ==
  { "Failed to initialize HID API", "LianLi UNI FAN AL V2 not found",
    "Failed to open LianLi UNI FAN AL V2" }
HubCommitErrors ==
  { "Failed to write fan LED commit", "Failed to write edge LED commit" }
HubPcs ==
  { "lianli_disable_api", "lianli_disable_find", "lianli_disable_open",
    "lianli_disable_for", "lianli_disable_color_fan", "lianli_disable_color_edge",
    "lianli_disable_commit_fan", "lianli_disable_commit_edge" }

\* C1: the packets lianli_disable writes are always a prefix of the 16-packet
\* sequence (color fan, color edge, commit fan, commit edge per channel 0..3),
\* each step of the loop has written exactly the packets before it, and a
\* call that opened the device and met no failed commit write has written
\* all 16, however many color writes failed.
C1_HubSixteenPackets ==
  /\ IsPrefix(Headers(hubWire), HubSequence)
  /\ pc = "lianli_disable_color_edge" => Len(hubWire) = 4 * channel + 1
  /\ pc = "lianli_disable_commit_fan" => Len(hubWire) = 4 * channel + 2
  /\ pc = "lianli_disable_commit_edge" => Len(hubWire) = 4 * channel + 3
  /\ \A i \in 1..Len(returns) :
       (returns[i].fn = "lianli_disable"
          /\ returns[i].ret \notin (HubOpenErrors \cup HubCommitErrors))
       => (returns[i].ret = "Ok" /\ Headers(hubWire) = HubSequence)

\* C1 witness: lianli_disable returned Ok with all 16 packets written
\* although color writes failed.
C1_Witness ==
  /\ command.name = "lianli"
  /\ ReturnsOf("lianli_disable") = << [fn |-> "lianli_disable", ret |-> "Ok"] >>
  /\ warnings >= 3
  /\ Len(hubWire) = 16

\* C2: once a commit write has failed, lianli_disable has returned that
\* error: the failed commit packet stays the last packet on the hub's wire
\* (nothing more for this channel or a later one) and the call's result is
\* the commit error, not Ok.
C2_CommitFailureAborts ==
  (hubWire # <<>> /\ BufLen(Last(hubWire)) = 65 /\ ~write_ok)
  => /\ pc \notin HubPcs
     /\ ReturnsOf("lianli_disable") # <<>>
     /\ ReturnsOf("lianli_disable")[1].ret =
          (IF Last(hubWire)[1] % 2 = 0
           THEN "Failed to write fan LED commit"
           ELSE "Failed to write edge LED commit")
     /\ Len(ReturnsOf("lianli_disable")) = 1

\* C2 witness: the fan commit of channel 1 failed after channel 0 went
\* through; the call has returned the error with 7 packets written.
C2_Witness ==
  /\ ~write_ok
  /\ Len(hubWire) = 7
  /\ Headers(hubWire)[7] = <<65, 18>>
  /\ ReturnsOf("lianli_disable") =
       << [fn |-> "lianli_disable", ret |-> "Failed to write fan LED commit"] >>

\* C3: with the flag true, a step from inside a 100 ms sleep only ends that
\* sleep, the sleep loop's check then only breaks, and the while check then
\* only returns Ok: no sleep, sensor read or push is started on the way, and
\* the daemon ends Stopped with success.
C3_CancelStep ==
  /\ (stop_flag /\ pc = "msi_daemon_sleeping")
       => pc' \in {"msi_daemon_sleeping", "msi_daemon_sleep_check"}
  /\ (stop_flag /\ pc = "msi_daemon_sleep_check")
       => pc' \in {"msi_daemon_sleep_check", "msi_daemon_while"}
  /\ (stop_flag /\ pc = "msi_daemon_while")
       => /\ pc' \in {"msi_daemon_while", "main_ret"}
          /\ pc' = "main_ret" => ret' = "Ok"
  /\ (stop_flag /\ pc \in {"msi_daemon_sleeping", "msi_daemon_sleep_check",
                           "msi_daemon_while"})
       => /\ stop_flag'
          /\ cycles' = cycles
          /\ msiWire' = msiWire
          /\ warnings' = warnings
          /\ sleep_i' = sleep_i \/ (pc = "msi_daemon_sleeping" /\ sleep_i' = sleep_i + 1)
\* C3: every step obeys C3_CancelStep, and a flag that is true inside a sleep
\* leads to the daemon Stopped with success.
C3_CancelDuringSleep ==
  /\ [][C3_CancelStep]_vars
  /\ (stop_flag /\ pc = "msi_daemon_sleeping") ~> (pc = "exit" /\ result = "Ok")

\* C3 witness: the flag is true inside the 4th sub-interval of a period, 16
\* sub-intervals before the period would end.
C3_Witness ==
  /\ stop_flag
  /\ pc = "msi_daemon_sleeping"
  /\ sleep_i = 3
  /\ cycles = 1

PollingPcs ==
  { "msi_daemon_while", "msi_daemon_read", "msi_daemon_send",
    "msi_daemon_sleep_check", "msi_daemon_sleeping" }
\* The temperature pushes on the cooler's wire
Pushes == SelectSeq(msiWire, LAMBDA e : e.kind = "write" /\ e.data[1] = 133)

\* C4: the daemon leaves Polling by one step only, the while check that finds
\* the flag true, and then msi_daemon returns Ok; a read, parse or push,
\* whatever its outcome, is followed by the sleep loop, and the while check
\* that finds the flag false starts the next sample cycle.
C4_PollingStep ==
  /\ (pc \in PollingPcs /\ pc' \notin PollingPcs)
       => /\ pc = "msi_daemon_while"
          /\ stop_flag
          /\ pc' = "main_ret"
          /\ ret' = "Ok"
          /\ Last(returns') = [fn |-> "msi_daemon", ret |-> "Ok"]
  /\ (pc = "msi_daemon_read" /\ pc' # pc)
       => pc' \in {"msi_daemon_send", "msi_daemon_sleep_check"}
  /\ (pc = "msi_daemon_send" /\ pc' # pc) => pc' = "msi_daemon_sleep_check"
  /\ (pc = "msi_daemon_while" /\ ~stop_flag /\ pc' # pc) => pc' = "msi_daemon_read"
  /\ (pc = "main_ret" /\ pc' = "exit") => result' = ret
\* C4: every step obeys C4_PollingStep, and a daemon run that started a
\* sample cycle ends, if it ends, with success.
C4_FailuresNeverStopLoop ==
  /\ [][C4_PollingStep]_vars
  /\ [](command.name = "daemon" /\ pc = "exit" /\ cycles > 0 => result = "Ok")

\* C4 witness: a run of two sample cycles, one whose push failed and one
\* whose read or parse failed, that ended with success.
C4_Witness ==
  /\ command.name = "daemon" /\ ~command.smart
  /\ pc = "exit" /\ result = "Ok"
  /\ cycles = 2 /\ warnings = 2
  /\ Len(Pushes) = 1 /\ ~Pushes[1].ok

DiscoveryErrors ==
  { "CPU temperature sensor not found", "Failed to read /sys/class/hwmon",
    "io error" }
TransportStartErrors ==
  { "Failed to initialize HID API", "Failed to open MSI CORELIQUID" }
SmartStepErrors ==
  { "Failed to write fan mode command 0x40", "Failed to write fan mode command 0x41" }

\* C5 as claimed: every msi_daemon that returned an error returned a sensor
\* discovery error.
C5_OnlyDiscoveryIsFatal ==
  \A i \in 1..Len(returns) :
    (returns[i].fn = "msi_daemon" /\ returns[i].ret # "Ok")
    => returns[i].ret \in DiscoveryErrors

\* C5 as amended: a daemon run that ends with an error failed while Starting,
\* before any sample cycle: setting the handler, initialising HID or opening
\* the cooler, the Smart fan-mode step (only with --smart), or sensor
\* discovery. No failure after Polling began is fatal.
C5_OnlyStartupIsFatal ==
  /\ \A i \in 1..Len(returns) :
       (returns[i].fn = "msi_daemon" /\ returns[i].ret # "Ok")
       => /\ returns[i].ret \in
               DiscoveryErrors \cup TransportStartErrors \cup SmartStepErrors
          /\ returns[i].ret \in SmartStepErrors => command.smart
          /\ cycles = 0
          /\ Pushes = <<>>
  /\ (command.name = "daemon" /\ pc = "exit" /\ result # "Ok")
       => /\ cycles = 0
          /\ \/ result = "Failed to set signal handler" /\ returns = <<>>
             \/ Last(returns) = [fn |-> "msi_daemon", ret |-> result]

\* C5 witness: the daemon ended with the error of the Smart step's second
\* write.
C5_Witness ==
  /\ command.name = "daemon"
  /\ pc = "exit"
  /\ result = "Failed to write fan mode command 0x41"
  /\ Last(returns) = [fn |-> "msi_daemon", ret |-> result]

OffOrder == <<"msi_disable", "lianli_disable", "gpu_disable", "msi_set_fan_mode">>
CoolerDisablePcs ==
  { "msi_disable_api", "msi_disable_open", "msi_disable_get", "msi_disable_send",
    "msi_disable_lcd" }
GpuPcs ==
  { "gpu_disable_find", "gpu_disable_open", "gpu_disable_mode_addr",
    "gpu_disable_mode_val", "gpu_disable_apply_addr", "gpu_disable_apply_val" }
FanPcs ==
  { "msi_set_fan_mode_api", "msi_set_fan_mode_open", "msi_set_fan_mode_write1",
    "msi_set_fan_mode_write2" }

\* C6: `off` runs msi_disable, lianli_disable, gpu_disable and
\* msi_set_fan_mode(Silent) in that order, each after the one before it
\* returned whatever it returned, and ends Ok after all four returned.
C6_OffAttemptsAll ==
  command.name = "off" =>
    /\ IsPrefix([i \in 1..Len(returns) |-> returns[i].fn], OffOrder)
    /\ pc \in CoolerDisablePcs => Len(returns) = 0
    /\ pc \in HubPcs => Len(returns) = 1
    /\ pc \in GpuPcs => Len(returns) = 2
    /\ pc \in FanPcs => Len(returns) = 3 /\ mode = "Silent"
    /\ result \in {"", "Ok"}
    /\ pc = "exit" => result = "Ok" /\ Len(returns) = 4

\* C6 witness: `off` ended with success although all four operations failed.
C6_Witness ==
  /\ command.name = "off"
  /\ pc = "exit" /\ result = "Ok"
  /\ Len(returns) = 4
  /\ \A i \in 1..4 : returns[i].ret # "Ok"

\* The fan-mode reports on the cooler's wire
FanWrites == SelectSeq(msiWire, LAMBDA e : e.kind = "write" /\ e.data[1] \in {64, 65})
FanReturnedPastOpen ==
  /\ ReturnsOf("msi_set_fan_mode") # <<>>
  /\ ReturnsOf("msi_set_fan_mode")[1].ret \notin TransportStartErrors
SameButByte1(a, b) ==
  DOMAIN a = DOMAIN b /\ \A i \in DOMAIN a : i # 1 => a[i] = b[i]
FanHeader(e, cmd) == BufLen(e.data) = 65 /\ e.data[0] = 208 /\ e.data[1] = cmd

\* C7 as claimed: every msi_set_fan_mode that opened the cooler has written
\* the {0xD0, 0x40} report and then the {0xD0, 0x41} report.
C7_BothAlwaysIssued ==
  FanReturnedPastOpen =>
    /\ Len(FanWrites) = 2
    /\ FanHeader(FanWrites[1], 64)
    /\ FanHeader(FanWrites[2], 65)

\* C7 as amended: msi_set_fan_mode, once the cooler is open, writes the
\* {0xD0, 0x40} report; if that write fails it returns the error and writes
\* nothing more; otherwise it writes the {0xD0, 0x41} report, equal to the
\* first but for byte 1; it returns Ok exactly when both writes succeeded.
C7_Handshake ==
  /\ Len(FanWrites) <= 2
  /\ Len(FanWrites) >= 1 => FanHeader(FanWrites[1], 64)
  /\ Len(FanWrites) = 2
       => /\ FanWrites[1].ok
          /\ FanHeader(FanWrites[2], 65)
          /\ SameButByte1(FanWrites[1].data, FanWrites[2].data)
  /\ FanReturnedPastOpen =>
       LET r == ReturnsOf("msi_set_fan_mode")[1].ret IN
       /\ Len(FanWrites) >= 1
       /\ FanWrites[1].ok => Len(FanWrites) = 2
       /\ ~FanWrites[1].ok => r = "Failed to write fan mode command 0x40"
       /\ r = "Ok" <=> (Len(FanWrites) = 2 /\ FanWrites[2].ok)
  /\ (ReturnsOf("msi_set_fan_mode") # <<>> /\ ~FanReturnedPastOpen)
       => FanWrites = <<>>

\* C7 witness: `fan game` wrote both reports and returned Ok.
C7_Witness ==
  /\ command.name = "fan" /\ command.mode = "Game"
  /\ ReturnsOf("msi_set_fan_mode") = << [fn |-> "msi_set_fan_mode", ret |-> "Ok"] >>
  /\ Len(FanWrites) = 2

\* The documented numeric value of each mode
ModeByte ==
  [Silent |-> 0, Balance |-> 1, Game |-> 2, Default |-> 4, Smart |-> 5]
ModeOffsets == {2, 10, 18, 26, 34}

\* C8: every fan-mode report on the wire carries the documented value of the
\* mode being set at offsets 2, 10, 18, 26 and 34 (a value in {0,1,2,4,5}),
\* and 0 at every byte other than bytes 0, 1 and those offsets; the mode is
\* the command's for `fan`, Silent for `off`, Smart for `daemon --smart`.
C8_FanModeBytes ==
  \A i \in 1..Len(FanWrites) :
    LET d == FanWrites[i].data IN
    /\ \A o \in ModeOffsets : d[o] = ModeByte[mode] /\ d[o] \in {0, 1, 2, 4, 5}
    /\ \A j \in DOMAIN d : j \notin (ModeOffsets \cup {0, 1}) => d[j] = 0
    /\ command.name = "fan" => mode = command.mode
    /\ command.name = "off" => mode = "Silent"
    /\ command.name = "daemon" => mode = "Smart"

\* C8 witness: `fan default` has both reports on the wire, carrying 4.
C8_Witness ==
  /\ command.name = "fan" /\ command.mode = "Default"
  /\ Len(FanWrites) = 2
  /\ FanWrites[2].data[34] = 4

\* Bytes lo, hi read as a 16-bit little-endian two's-complement value
DecodeI16LE(lo, hi) ==
  LET u == lo + 256 * hi IN IF u >= 32768 THEN u - 65536 ELSE u
\* The quotient of m by 1000 rounded toward zero
TowardZero(m) == IF m >= 0 THEN m \div 1000 ELSE -((-m) \div 1000)

\* C9: every temperature report pushed for a sensor reading of T degrees
\* (T in -40..125) is 65 bytes, {0xD0, 0x85}, 3000 little-endian at bytes 2-3,
\* zero from byte 6 on, and bytes 4-5 read as a signed 16-bit little-endian
\* value give T; the reports pushed for the same reading in different cycles
\* are byte-identical.
C9_TemperatureRoundTrip ==
  /\ \A i \in 1..Len(Pushes) :
       LET d == Pushes[i].data IN
       /\ BufLen(d) = 65
       /\ \A j \in DOMAIN d : d[j] \in 0..255
       /\ d[0] = 208 /\ d[1] = 133
       /\ d[2] = 184 /\ d[3] = 11 /\ d[2] + 256 * d[3] = 3000
       /\ \A j \in 6..64 : d[j] = 0
       /\ \A m \in TempRaw :
            sensor.content = TempText[m]
            => /\ TowardZero(m) \in -40..125
               /\ DecodeI16LE(d[4], d[5]) = TowardZero(m)
  /\ \A i, j \in 1..Len(Pushes) : Pushes[i].data = Pushes[j].data

\* C9 witness: -40 degrees was pushed in two cycles, high byte 0xFF.
C9_Witness ==
  /\ sensor.content = TempText[-40000]
  /\ Len(Pushes) = 2
  /\ Pushes[2].data[4] = 216 /\ Pushes[2].data[5] = 255

\* C10: the sample about to be pushed is the millidegree reading divided by
\* 1000 and rounded toward zero: 45000 -> 45, 45999 -> 45, -500 -> 0,
\* -1500 -> -1.
C10_TruncatingDivision ==
  pc = "msi_daemon_send" =>
    /\ temp.ok
    /\ \A m \in TempRaw : content = TempText[m] => temp.val = TowardZero(m)
    /\ content = <<"4", "5", "0", "0", "0", "\n">> => temp.val = 45
    /\ content = <<"4", "5", "9", "9", "9", "\n">> => temp.val = 45
    /\ content = <<"-", "5", "0", "0", "\n">> => temp.val = 0
    /\ content = <<"-", "1", "5", "0", "0", "\n">> => temp.val = -1

\* C10 witness: the reading -1500 is about to be pushed as -1.
C10_Witness ==
  /\ pc = "msi_daemon_send"
  /\ content = <<"-", "1", "5", "0", "0", "\n">>
  /\ temp.val = -1

\* The state the fixed-file runs start from is one the program reaches.
TempInitReached ==
  /\ command = [name |-> "daemon", mode |-> "Silent", smart |-> FALSE]
  /\ pc = "msi_daemon_while" /\ result = "" /\ ret = "" /\ returns = <<>>
  /\ temp_path = <<"hwmon1", "temp1_input">> /\ cycles = 0 /\ msiWire = <<>>
  /\ handles = [msi |-> 1, lianli |-> 0, gpu |-> 0] /\ warnings = 0
  /\ ~stop_flag /\ handlerInstalled /\ signalMsgs = 0


\* ------------------------------------------- discovery over a fixed tree
\* What an entry's `name` file may be: missing or unreadable, the two
\* driver names bare, with a newline, with blanks around, another driver,
\* a longer name, a shorter name.
HwmonNames ==
  { NoFile } \cup
  { TextFile(s) : s \in
      { StrK10temp, StrCoretemp \o <<"\n">>, <<" ">> \o StrK10temp \o <<"\t", "\n">>,
        StrNvme, StrK10temp \o <<"2", "\n">>, <<"c", "o", "r", "e", "\n">> } }
\* An entry before it has its place: the read of the entry fails, or it has
\* a name file and has or lacks temp1_input.
HwmonKinds ==
  { [err |-> FALSE, name |-> n, temp1_input |-> t] : n \in HwmonNames, t \in BOOLEAN }
  \cup { [err |-> TRUE, name |-> NoFile, temp1_input |-> FALSE] }
HwmonDir(i) == << "hwmon0", "hwmon1", "hwmon2", "hwmon3" >>[i]
\* Every tree of up to MaxEntries entries, and the unreadable directory
CpuTrees ==
  { [readable |-> FALSE, entries |-> <<>>] } \cup
  UNION { { [readable |-> TRUE, entries |->
               [i \in 1..n |-> HwmonEntry(HwmonDir(i), f[i].err, f[i].name,
                                          f[i].temp1_input)]] :
            f \in [1..n -> HwmonKinds] } : n \in 0..MaxEntries }

\* The daemon as it calls find_cpu_temp_path (no --smart, handler installed,
\* cooler open), on a machine whose tree stays as it is.
FindInit ==
  /\ command = [name |-> "daemon", mode |-> "Silent", smart |-> FALSE]
  /\ hwmon \in CpuTrees
  /\ pc = "msi_daemon_find"
  /\ result = ""
  /\ ret = ""
  /\ returns = <<>>
  /\ mode = "Silent"
  /\ buf = <<>>
  /\ channel = 0
  /\ color_packet = <<>>
  /\ commit = <<>>
  /\ write_ok = TRUE
  /\ bus_path = <<>>
  /\ temp_path = <<>>
  /\ content = <<>>
  /\ sensor = NoFile
  /\ temp = NoTemp
  /\ sleep_i = 0
  /\ cycles = 0
  /\ msiWire = <<>>
  /\ hubWire = <<>>
  /\ gpuWire = <<>>
  /\ handles = [msi |-> 1, lianli |-> 0, gpu |-> 0]
  /\ warnings = 0
  /\ stop_flag = FALSE
  /\ handlerInstalled = TRUE
  /\ signalMsgs = 0

\* msi_daemon: find_cpu_temp_path()?, over the tree that stays as it is
msi_daemon_find_fixed ==
  /\ pc = "msi_daemon_find"
  /\ DaemonFind(hwmon)

FindNext == msi_daemon_find_fixed \/ main_ret

SpecFind == FindInit /\ [][FindNext]_vars
\* The state the fixed-tree runs start from is one the program reaches.
FindInitReached ==
  /\ command = [name |-> "daemon", mode |-> "Silent", smart |-> FALSE]
  /\ pc = "msi_daemon_find" /\ result = "" /\ ret = "" /\ returns = <<>>
  /\ temp_path = <<>> /\ cycles = 0 /\ msiWire = <<>>
  /\ handles = [msi |-> 1, lianli |-> 0, gpu |-> 0] /\ warnings = 0
  /\ ~stop_flag /\ handlerInstalled /\ signalMsgs = 0

\* ---------------------------------------------------------------------
\* C11: the GPU shutdown sequence
\* ---------------------------------------------------------------------

\* The four SMBus writes as the ENE protocol documents them: the register
\* address goes out byte-swapped as a word to command 0x00, the value as a
\* byte to command 0x01. 0x8021 -> 0x2180 = 8576, 0x80A0 -> 0xA080 = 41088.
GpuSequence ==
  << <<"word", 0, 8576>>, <<"byte", 1, 0>>, <<"word", 0, 41088>>, <<"byte", 1, 1>> >>
GpuWritten == [i \in 1..Len(gpuWire) |-> <<gpuWire[i].kind, gpuWire[i].cmd, gpuWire[i].val>>]
GpuWriteErrors ==
  << "Failed to write mode register address", "Failed to write mode value",
     "Failed to write apply register address", "Failed to write apply value" >>

\* C11: the writes of gpu_disable are always a prefix of the four-write
\* sequence (word 0x2180 to 0x00, byte 0x00 to 0x01, word 0xA080 to 0x00,
\* byte 0x01 to 0x01); a write is issued only after every earlier write
\* succeeded; a failed write is the last one and gpu_disable has returned
\* that write's error; gpu_disable returns Ok only after four successful
\* writes, and four successful writes end in Ok.
C11_GpuFourWrites ==
  /\ IsPrefix(GpuWritten, GpuSequence)
  /\ \A i \in 1..Len(gpuWire) :
       IF gpuWire[i].ok
       THEN i < Len(gpuWire) \/ pc \in GpuPcs \/ Len(gpuWire) = 4
       ELSE /\ i = Len(gpuWire)
            /\ pc \notin GpuPcs
            /\ ReturnsOf("gpu_disable") = << [fn |-> "gpu_disable", ret |-> GpuWriteErrors[i]] >>
  /\ \A k \in 1..Len(ReturnsOf("gpu_disable")) :
       ReturnsOf("gpu_disable")[k].ret = "Ok"
         <=> (Len(gpuWire) = 4 /\ \A i \in 1..4 : gpuWire[i].ok)
  /\ Len(gpuWire) > 0 /\ pc \in GpuPcs =>
       pc = << "gpu_disable_mode_val", "gpu_disable_apply_addr",
               "gpu_disable_apply_val" >>[Len(gpuWire)]

\* The third write failed after two successful ones: nothing follows it.
C11_Witness ==
  /\ Len(gpuWire) = 3
  /\ gpuWire[1].ok /\ gpuWire[2].ok /\ ~gpuWire[3].ok
  /\ gpuWire[3].val = 41088
  /\ pc = "exit"

\* ---------------------------------------------------------------------
\* C12: the cooler's disable sequence
\* ---------------------------------------------------------------------

\* What msi_disable put on the cooler's wire: feature-report reads and
\* writes, and output reports with the LCD-disable header {0xD0, 0x7F}.
DisableIo ==
  SelectSeq(msiWire, LAMBDA e :
    \/ e.kind \in {"get_feature", "send_feature"}
    \/ e.kind = "write" /\ e.data[0] = 208 /\ e.data[1] = 127)
DisableKinds == [i \in 1..Len(DisableIo) |-> DisableIo[i].kind]
DisableErrors ==
  << "Failed to get feature report", "Failed to send feature report",
     "Failed to disable LCD" >>
DisableOpenErrors == { "Failed to initialize HID API", "Failed to open MSI CORELIQUID" }

\* C12: msi_disable talks to the cooler in the order read feature report,
\* write feature report, write the report headed {0xD0, 0x7F}, and only while
\* it holds the device open; a step is issued only after every earlier step
\* succeeded; a failed step is the last one and msi_disable has returned that
\* step's error; when the device cannot be opened nothing is put on the wire;
\* msi_disable returns Ok exactly after three successful steps.
C12_DisableAbortsAtFirstFailure ==
  command.name \in {"msi", "off"} =>
    /\ IsPrefix(DisableKinds, << "get_feature", "send_feature", "write" >>)
    /\ command.name = "msi" => Len(DisableIo) = Len(msiWire)
    /\ \A i \in 1..Len(DisableIo) :
         IF DisableIo[i].ok
         THEN i < Len(DisableIo) \/ pc \in CoolerDisablePcs \/ Len(DisableIo) = 3
         ELSE /\ i = Len(DisableIo)
              /\ pc \notin CoolerDisablePcs
              /\ ReturnsOf("msi_disable")
                   = << [fn |-> "msi_disable", ret |-> DisableErrors[i]] >>
    /\ \A k \in 1..Len(ReturnsOf("msi_disable")) :
         /\ ReturnsOf("msi_disable")[k].ret = "Ok"
              <=> (Len(DisableIo) = 3 /\ \A i \in 1..3 : DisableIo[i].ok)
         /\ ReturnsOf("msi_disable")[k].ret \in DisableOpenErrors => DisableIo = << >>
    /\ pc \in {"msi_disable_api", "msi_disable_open"} => DisableIo = << >>
    /\ Len(DisableIo) > 0 /\ pc \in CoolerDisablePcs =>
         /\ pc = << "msi_disable_send", "msi_disable_lcd" >>[Len(DisableIo)]
         /\ handles.msi = 1

\* The feature-report write failed: the report was read, the LCD report was
\* never sent.
C12_Witness ==
  /\ command.name = "msi"
  /\ Len(DisableIo) = 2
  /\ DisableIo[1].ok /\ ~DisableIo[2].ok
  /\ DisableIo[2].kind = "send_feature"
  /\ pc = "exit"

\* ---------------------------------------------------------------------
\* C13: what the interrupt handler does
\* ---------------------------------------------------------------------

\* C13: a step of the interrupt handler changes the flag and nothing else:
\* no console line is printed (signalMsgs counts the handler's println!
\* lines), no wire, handle, file or control state changes.
C13_HandlerOnlySetsFlag ==
  [][Interrupt =>
       UNCHANGED <<cliVars, ctlVars, msiVars, hubVars, gpuVars, daemonVars,
                   handles, warnings, handlerInstalled, signalMsgs>>]_vars

\* ---------------------------------------------------------------------
\* C14: the cancellation flag only ever goes from false to true
\* ---------------------------------------------------------------------

\* C14: the flag is false until the handler is installed and false right
\* after its creation in main; a step never takes it from true to false,
\* whatever the position of the daemon and however many interrupts arrived;
\* a step that changes it is a step of the handler (it prints its line) and
\* not of the main thread (pc, the wires and the handles stay as they are).
C14_FlagMonotone ==
  /\ [](~handlerInstalled => ~stop_flag)
  /\ [][/\ pc = "main_set_handler" => ~stop_flag'
        /\ stop_flag => stop_flag'
        /\ stop_flag' # stop_flag =>
             /\ signalMsgs' = signalMsgs + 1
             /\ UNCHANGED <<ctlVars, msiVars, hubVars, gpuVars, daemonVars, handles>>]_vars

\* A second interrupt arrived while the daemon was in its sleep loop with
\* the flag already true.
C14_Witness ==
  /\ stop_flag
  /\ signalMsgs = 2
  /\ pc = "msi_daemon_sleep_check"
  /\ cycles = 2

\* ---------------------------------------------------------------------
\* C15: handles are closed when their operation returns
\* ---------------------------------------------------------------------

\* The positions of main at which no driver operation is in progress
IdlePcs ==
  { "main", "main_set_handler", "main_ret", "exit",
    "off_msi", "off_lianli", "off_gpu", "off_fan", "off_done" }
Devices == {"msi", "lianli", "gpu"}

\* C15: whenever no operation is in progress (before the first, between the
\* operations of `off`, after the last, whatever each returned) no handle to
\* the cooler, the hub or the GPU bus is open; when msi_set_fan_mode has
\* returned into msi_daemon, its handle is closed and only the daemon's own
\* is open; a handle count never goes below zero.
C15_HandlesClosedOnReturn ==
  /\ \A d \in Devices : handles[d] >= 0
  /\ pc \in IdlePcs => \A d \in Devices : handles[d] = 0
  /\ pc = "daemon_smart_ret" =>
       handles = [msi |-> 1, lianli |-> 0, gpu |-> 0]
  /\ \A d \in Devices : handles[d] > 0 =>
       pc \in (CASE d = "msi" -> CoolerDisablePcs \cup FanPcs \cup PollingPcs
                       \cup { "msi_dump_get", "msi_daemon_smart", "daemon_smart_ret",
                              "msi_daemon_find" }
                 [] d = "lianli" -> HubPcs
                 [] d = "gpu" -> GpuPcs)

\* The daemon had opened the cooler when sensor discovery failed: it has
\* returned the error and the cooler's handle is closed.
C15_Witness ==
  /\ pc = "exit"
  /\ result = "CPU temperature sensor not found"
  /\ \E i \in 1..Len(returns) : returns[i].fn = "msi_daemon"
  /\ handles.msi = 0

\* ---------------------------------------------------------------------
\* C16: CPU sensor discovery
\* ---------------------------------------------------------------------

\* The name-file texts that, with the white space around them removed, are
\* exactly k10temp or coretemp (written out, not computed)
CpuSensorNameTexts ==
  { <<"k", "1", "0", "t", "e", "m", "p">>,
    <<"c", "o", "r", "e", "t", "e", "m", "p", "\n">>,
    <<" ", "k", "1", "0", "t", "e", "m", "p", "\t", "\n">> }
\* The places in the tree of the entries discovery may return
CpuSensorEntries ==
  { i \in 1..Len(hwmon.entries) :
      /\ ~hwmon.entries[i].err
      /\ hwmon.entries[i].name.readable
      /\ hwmon.entries[i].name.content \in CpuSensorNameTexts
      /\ hwmon.entries[i].temp1_input }
\* The directory and each of its entries can be enumerated
Enumerates ==
  /\ hwmon.readable
  /\ \A i \in 1..Len(hwmon.entries) : ~hwmon.entries[i].err

\* C16: once discovery over the tree has run: a path is returned only for an
\* entry whose name is exactly k10temp or coretemp after trimming and that
\* has temp1_input, and that entry is the first such one in enumeration
\* order (entries with another name, an unreadable name, or a matching name
\* without temp1_input are passed over); when no path is returned
\* msi_daemon has returned an error; over a tree that enumerates, a path is
\* returned when such an entry exists, and the error is the sensor-not-found
\* one when none exists.
C16_FirstMatchingSensor ==
  pc # "msi_daemon_find" =>
    /\ temp_path # <<>> =>
         /\ pc = "msi_daemon_while" /\ returns = <<>>
         /\ \E i \in CpuSensorEntries :
              /\ temp_path = << hwmon.entries[i].dir, "temp1_input" >>
              /\ \A j \in CpuSensorEntries : i <= j
    /\ temp_path = <<>> =>
         /\ pc \in {"main_ret", "exit"}
         /\ Len(returns) = 1 /\ returns[1].fn = "msi_daemon" /\ returns[1].ret # "Ok"
    /\ Enumerates /\ CpuSensorEntries # {} => temp_path # <<>>
    /\ Enumerates /\ CpuSensorEntries = {} =>
         /\ temp_path = <<>>
         /\ returns[1].ret = "CPU temperature sensor not found"

\* Discovery passed over a coretemp entry without temp1_input and returned
\* the k10temp entry after it.
C16_Witness ==
  /\ pc = "msi_daemon_while"
  /\ Len(hwmon.entries) = 2
  /\ hwmon.entries[1].name.content = <<"c", "o", "r", "e", "t", "e", "m", "p", "\n">>
  /\ ~hwmon.entries[1].temp1_input
  /\ temp_path = << "hwmon1", "temp1_input" >>

\* ---------------------------------------------------------------------
\* C17: the LED feature report changes at the 17 zone offsets only
\* ---------------------------------------------------------------------

\* The 17 LED-zone offsets as the protocol documents them
LedZoneOffsets ==
  { 1, 11, 21, 31, 42, 53, 74, 84, 94, 104, 114, 124, 134, 144, 154, 164, 174 }

\* C17: when msi_disable is about to write the feature report, buf holds the
\* report the cooler just returned; the report it writes has the same
\* length, is 0 at each of the 17 LED-zone offsets and equals the report
\* read at every other byte.
C17_OnlyLedBytesChange ==
  /\ [](pc = "msi_disable_send" => buf \in DeviceReports)
  /\ [][pc = "msi_disable_send" /\ pc' # pc =>
          /\ Len(msiWire') = Len(msiWire) + 1
          /\ Last(msiWire').kind = "send_feature"
          /\ DOMAIN Last(msiWire').data = DOMAIN buf
          /\ \A j \in DOMAIN buf :
               Last(msiWire').data[j] = IF j \in LedZoneOffsets THEN 0 ELSE buf[j]]_vars

\* A report was written back: zero at the first and last zone offsets, the
\* device's bytes next to them.
C17_Witness ==
  /\ Cardinality(LedZoneOffsets) = 17
  /\ \E i \in 2..Len(msiWire) :
       /\ msiWire[i].kind = "send_feature" /\ msiWire[i].ok
       /\ msiWire[i - 1].kind = "get_feature" /\ msiWire[i - 1].ok
       /\ msiWire[i].data[1] = 0 /\ msiWire[i].data[174] = 0
       /\ msiWire[i].data[0] = 82 /\ msiWire[i].data[2] = 6
       /\ msiWire[i].data[173] = (173 * 3) % 256 /\ msiWire[i].data[184] = (184 * 3) % 256

\* ---------------------------------------------------------------------
\* C18: one handle to the cooler at a time
\* ---------------------------------------------------------------------

\* C18: in every reachable state at most one transport handle to the cooler
\* is open, also while the daemon started with --smart runs
\* msi_set_fan_mode(Smart) after it opened the cooler itself.
C18_OneCoolerHandle == handles.msi <= 1

\* ---------------------------------------------------------------------
\* C19: the interval between sample cycles, and one push per cycle
\* ---------------------------------------------------------------------

\* The degrees the daemon's sensor texts stand for: 45999 -> 45, -1500 -> -1
DegreesOf(text) ==
  CASE text = <<"4", "5", "9", "9", "9", "\n">> -> 45
    [] text = <<"-", "1", "5", "0", "0", "\n">> -> -1

\* C19, per step: the sleep loop ends with the flag false only after 20
\* sleeps, and a further sample cycle starts only after 20 sleeps, whether
\* the cycle before pushed, failed to push or failed to read; a sleep adds
\* one to the count, and the end of a sample cycle resets it. A push is put
\* on the wire only by the step that follows a successful read and parse,
\* carries the degrees of the text read, and ends the cycle; a failed read
\* or parse ends the cycle with nothing put on the wire.
C19_CycleStep ==
  /\ (pc = "msi_daemon_sleep_check" /\ pc' = "msi_daemon_while" /\ ~stop_flag)
       => sleep_i = 20
  /\ (pc = "msi_daemon_while" /\ pc' = "msi_daemon_read")
       => /\ ~stop_flag
          /\ cycles' = cycles + 1
          /\ cycles >= 1 => sleep_i = 20
  /\ (pc = "msi_daemon_sleeping" /\ pc' # pc)
       => sleep_i' = sleep_i + 1 /\ pc' = "msi_daemon_sleep_check"
  /\ (pc # "msi_daemon_sleeping" /\ sleep_i' # sleep_i)
       => /\ pc \in {"msi_daemon_read", "msi_daemon_send"}
          /\ pc' = "msi_daemon_sleep_check" /\ sleep_i' = 0
  /\ (pc \in {"msi_daemon_read", "msi_daemon_send"} /\ pc' = "msi_daemon_sleep_check")
       => sleep_i' = 0
  /\ (pc \in PollingPcs /\ msiWire' # msiWire)
       => /\ pc = "msi_daemon_send" /\ pc' = "msi_daemon_sleep_check"
          /\ temp.ok
          /\ Len(msiWire') = Len(msiWire) + 1
          /\ Pushes' = Append(Pushes, Last(msiWire'))
          /\ DecodeI16LE(Last(msiWire').data[4], Last(msiWire').data[5])
               = DegreesOf(content)
  /\ (pc = "msi_daemon_read" /\ pc' = "msi_daemon_send")
       => temp'.ok /\ temp'.val = DegreesOf(content')
  /\ (pc' = "msi_daemon_send" /\ pc # pc') => pc = "msi_daemon_read"
  /\ (pc = "msi_daemon_read" /\ pc' = "msi_daemon_sleep_check")
       => ~temp'.ok /\ msiWire' = msiWire
  /\ (pc = "msi_daemon_read" /\ pc' # pc)
       => pc' = (IF temp'.ok THEN "msi_daemon_send" ELSE "msi_daemon_sleep_check")
\* C19: every step obeys C19_CycleStep, the sleep count stays within 0..20,
\* and there are never more pushes than sample cycles started (none yet for
\* the cycle that is still reading or about to push).
C19_TwentySleepsOnePush ==
  /\ [](sleep_i \in 0..20)
  /\ [](Len(Pushes) <= (IF pc \in {"msi_daemon_read", "msi_daemon_send"}
                        THEN cycles - 1 ELSE cycles))
  /\ [][C19_CycleStep]_vars

\* The second sample cycle starts, with the flag false, 20 sleeps after a
\* first cycle whose read failed and pushed nothing.
C19_Witness ==
  /\ pc = "msi_daemon_read"
  /\ cycles = 2
  /\ sleep_i = 20
  /\ ~stop_flag
  /\ warnings = 1
  /\ Pushes = <<>>

\* ---------------------------------------------------------------------
\* C20: what the daemon still does once the flag is true
\* ---------------------------------------------------------------------

\* The order of the loop's positions within one pass: read, push, the sleep
\* loop, the loop condition, the return.
StopRank(p) ==
  CASE p = "msi_daemon_read" -> 1
    [] p = "msi_daemon_send" -> 2
    [] p = "msi_daemon_sleeping" -> 3
    [] p = "msi_daemon_sleep_check" -> 4
    [] p = "msi_daemon_while" -> 5
    [] OTHER -> 6

\* C20, per step: with the flag true every step of the loop moves forward in
\* the order read, push, sleep loop, loop condition, return, so each
\* position is passed at most once more (one read, one push at most) and no
\* further cycle is counted; the read position is entered only by the loop
\* condition that found the flag false, so a read with the flag true is the
\* read of a cycle whose condition was checked before the flag was set; the
\* wire changes only by the push; leaving the loop returns Ok.
C20_StopStep ==
  /\ (stop_flag /\ pc \in PollingPcs /\ pc' # pc)
       => /\ StopRank(pc') > StopRank(pc)
          /\ cycles' = cycles
          /\ msiWire' # msiWire => pc = "msi_daemon_send"
          /\ pc' \notin PollingPcs => pc' = "main_ret" /\ ret' = "Ok"
  /\ (pc' = "msi_daemon_read" /\ pc # pc')
       => pc = "msi_daemon_while" /\ ~stop_flag /\ ~stop_flag'
  /\ (stop_flag /\ pc \in PollingPcs) => stop_flag'
\* C20: every step obeys C20_StopStep whatever the interleaving of the
\* handler with the loop, and (every call returning) a daemon in its loop
\* with the flag true ends with success.
C20_AtMostOneMoreCycle ==
  /\ [][C20_StopStep]_vars
  /\ (stop_flag /\ pc \in PollingPcs) ~> (pc = "exit" /\ result = "Ok")

\* The flag was set after the loop condition of the second cycle found it
\* false and before that cycle's read.
C20_Witness ==
  /\ stop_flag
  /\ pc = "msi_daemon_read"
  /\ cycles = 2
  /\ Len(Pushes) = 1
====
